---- MODULE Spec2Model ----
(***************************************************************************)
(* Model of the tester-army GitHub action.                                 *)
(*                                                                         *)
(* Part 1: the deployment classifier, src/src/deployment.ts.               *)
(* Part 2: the remote test client, src/src/tester-army.ts.                 *)
(* Part 3: the PR context lookup, the orchestrator run() and the PR        *)
(*         comment, src/src/main.ts.                                       *)
(*                                                                         *)
(* JavaScript values are records [t |-> <typeof tag>, v |-> <value>]:      *)
(* strings carry their text, numbers their decimal text, undefined and     *)
(* null carry "".  Objects are records whose t is "object" and whose       *)
(* other fields are the object's properties; a property that is missing    *)
(* reads as undefined, as in JavaScript.                                   *)
(***************************************************************************)
EXTENDS Integers, Sequences, FiniteSets, TLC

VARIABLES context, result, pc

\* the classifier's state
classifierVars == <<context, result, pc>>

\* one invocation of runCITest: where the async function is suspended
\* (cpc), the loop variables attempt and lastError, the deadline timer of
\* executeRequest, the response being read, and what the invocation has
\* done so far: requests sent, requests outstanding, backoff sleeps begun,
\* how each attempt's fetch settled, and the promise's outcome
VARIABLES cpc, attempt, lastError, timerArmed, response,
          requests, inflight, sleeps, history, outcome

clientVars == <<cpc, attempt, lastError, timerArmed, response,
                requests, inflight, sleeps, history, outcome>>

\* one call of fetchPRContext: where it is suspended (prpc), the PRs the
\* platform associates with the commit (prs), the PR taken (pr), the loop
\* variables page and changedFiles of fetchAllChangedFiles, the calls made
\* to the platform (pullCalls, fileCalls: the pages asked for, in order),
\* the warnings logged and what the call returned (prReturn)
VARIABLES prpc, prs, pr, page, changedFiles, pullCalls, fileCalls,
          warnings, prReturn

prVars == <<prpc, prs, pr, page, changedFiles, pullCalls, fileCalls,
            warnings, prReturn>>

\* one run of the action: where run() is (rpc), the texts of the action's
\* inputs and of GITHUB_TOKEN (rawInputs), what getInputs made of them
\* (inputs), the result the service gave
\* (testResult), the outputs set, the messages of core.setFailed (failed)
\* and the calls run() has made, in order (steps)
VARIABLES rpc, rawInputs, inputs, testResult, outputs, failed, steps

runVars == <<rpc, rawInputs, inputs, testResult, outputs, failed, steps>>

\* the comments of one PR and the calls of postOrUpdateComment on it:
\* where the current call is (cmpc), the comments the PR holds, what the
\* current call's listing returned (listed), the write calls made so far
\* (writes), the number of calls started (posts), whether every listing so
\* far succeeded and returned all comments (listingsComplete), and how the
\* calls ended (postResults)
VARIABLES cmpc, comments, listed, writes, posts, listingsComplete, postResults

commentVars == <<cmpc, comments, listed, writes, posts, listingsComplete,
                 postResults>>

vars == <<classifierVars, clientVars, prVars, runVars, commentVars>>

---------------------------------------------------------------------------
(* JavaScript values *)

Undefined == [t |-> "undefined", v |-> ""]

Null == [t |-> "null", v |-> ""]

Str(s) == [t |-> "string", v |-> s]

Num(d) == [t |-> "number", v |-> d]

\* the marker of an exception that is propagating
Throw == [t |-> "throw", v |-> "TypeError"]

IsString(x) == x.t = "string"

IsNullish(x) == x.t \in {"undefined", "null"}

\* ToBoolean: undefined, null, "", 0 are falsy; objects are truthy
Truthy(x) ==
  CASE x.t = "undefined" -> FALSE
    [] x.t = "null" -> FALSE
    [] x.t = "string" -> x.v # ""
    [] x.t = "number" -> x.v # "0"
    [] OTHER -> TRUE

\* o.name : a TypeError on undefined and null, undefined for a property
\* that the value does not have
GetProp(o, name) ==
  IF IsNullish(o) THEN Throw
  ELSE IF o.t = "object" /\ name \in DOMAIN o THEN o[name]
  ELSE Undefined

\* o?.name : undefined on undefined and null
GetPropOpt(o, name) ==
  IF IsNullish(o) THEN Undefined ELSE GetProp(o, name)

\* a ?? b
Coalesce(a, b) == IF IsNullish(a) THEN b ELSE a

---------------------------------------------------------------------------
(* Strings *)

CharAt(s, i) == SubSeq(s, i, i)

UpperChars == "ABCDEFGHIJKLMNOPQRSTUVWXYZ"

LowerChars == "abcdefghijklmnopqrstuvwxyz"

DigitChars == "0123456789"

\* the set of the characters of a string
CharSet(chars) == {CharAt(chars, i) : i \in 1..Len(chars)}

UpperSet == CharSet(UpperChars)

DigitSet == CharSet(DigitChars)

\* the lower-case letter of each upper-case letter
LowerOf == [c \in UpperSet |->
              CharAt(LowerChars, CHOOSE i \in 1..Len(UpperChars) : CharAt(UpperChars, i) = c)]

LowerChar(c) == IF c \in UpperSet THEN LowerOf[c] ELSE c

RECURSIVE toLowerCase(_)
\* String.prototype.toLowerCase on ASCII text
toLowerCase(s) ==
  IF s = "" THEN ""
  ELSE LowerChar(CharAt(s, 1)) \o toLowerCase(SubSeq(s, 2, Len(s)))

StartsWith(s, p) == Len(s) >= Len(p) /\ SubSeq(s, 1, Len(p)) = p

EndsWith(s, p) == Len(s) >= Len(p) /\ SubSeq(s, Len(s) - Len(p) + 1, Len(s)) = p

RECURSIVE ScanTo(_, _, _)
\* the least index from i on of a character of s that is in set,
\* Len(s) + 1 if there is none
ScanTo(s, set, i) ==
  IF i > Len(s) \/ CharAt(s, i) \in set THEN i ELSE ScanTo(s, set, i + 1)

IndexOfAny(s, set) == ScanTo(s, set, 1)

AllIn(s, set) == \A i \in 1..Len(s) : CharAt(s, i) \in set

---------------------------------------------------------------------------
(* new URL(input) of the WHATWG URL standard, without a base URL, for an   *)
(* input over letters, digits and - . : / ? = whose host is a domain name  *)
(* (no credentials, no IP address, no punycode label) and whose path has   *)
(* no . or .. segment.  The parser lower-cases the scheme and the host,    *)
(* drops a default port, and gives a special URL with no path the path     *)
(* "/"; a URL without a scheme, with an empty host or with a bad port      *)
(* fails to parse, which new URL reports by throwing.                      *)

SchemeSet == CharSet(UpperChars \o LowerChars \o DigitChars \o "+-.")

LetterSet == CharSet(UpperChars \o LowerChars)

SpecialSchemes == {"http", "https", "ftp", "ws", "wss"}

DefaultPort(scheme) ==
  CASE scheme \in {"http", "ws"} -> 80
    [] scheme \in {"https", "wss"} -> 443
    [] scheme = "ftp" -> 21
    [] OTHER -> -1

DigitValue(c) == (CHOOSE i \in 1..Len(DigitChars) : CharAt(DigitChars, i) = c) - 1

RECURSIVE ParseDecimal(_)
\* the value of a string of decimal digits, capped at 65536 (every port
\* above 65535 is rejected alike)
ParseDecimal(s) ==
  IF s = "" THEN 0
  ELSE LET hi == ParseDecimal(SubSeq(s, 1, Len(s) - 1))
           n == hi * 10 + DigitValue(CharAt(s, Len(s)))
       IN IF n > 65535 THEN 65536 ELSE n

RECURSIVE ToDecimal(_)
\* the shortest decimal text of a natural number
ToDecimal(n) ==
  IF n < 10 THEN CharAt(DigitChars, n + 1)
  ELSE ToDecimal(n \div 10) \o CharAt(DigitChars, (n % 10) + 1)

RECURSIVE SkipSlashes(_)
SkipSlashes(s) == IF StartsWith(s, "/") THEN SkipSlashes(SubSeq(s, 2, Len(s))) ELSE s

FailedURL ==
  [ok |-> FALSE, protocol |-> "", hostname |-> "", port |-> "",
   pathname |-> "", hasQuery |-> FALSE, query |-> ""]

\* the part of a special URL after "scheme:"
ParseSpecial(scheme, rest) ==
  LET r == SkipSlashes(rest)
      authEnd == IndexOfAny(r, {"/", "?"})
      authority == SubSeq(r, 1, authEnd - 1)
      after == SubSeq(r, authEnd, Len(r))
      colon == IndexOfAny(authority, {":"})
      host == SubSeq(authority, 1, colon - 1)
      portText == SubSeq(authority, colon + 1, Len(authority))
      portNum == ParseDecimal(portText)
      qAt == IndexOfAny(after, {"?"})
      path == SubSeq(after, 1, qAt - 1)
  IN IF host = "" THEN FailedURL
     ELSE IF ~AllIn(portText, DigitSet) THEN FailedURL
     ELSE IF portNum > 65535 THEN FailedURL
     ELSE [ok |-> TRUE,
           protocol |-> scheme \o ":",
           hostname |-> toLowerCase(host),
           port |-> IF portText = "" \/ portNum = DefaultPort(scheme)
                    THEN "" ELSE ToDecimal(portNum),
           pathname |-> IF path = "" THEN "/" ELSE path,
           hasQuery |-> qAt <= Len(after),
           query |-> SubSeq(after, qAt + 1, Len(after))]

\* new URL(input); ok = FALSE stands for the TypeError it throws
NewURL(input) ==
  LET colon == IndexOfAny(input, {":"})
      scheme == toLowerCase(SubSeq(input, 1, colon - 1))
      rest == SubSeq(input, colon + 1, Len(input))
  IN IF input = "" \/ CharAt(input, 1) \notin LetterSet
       THEN FailedURL
     ELSE IF colon > Len(input) \/ ~AllIn(scheme, SchemeSet) THEN FailedURL
     ELSE IF scheme \in SpecialSchemes THEN ParseSpecial(scheme, rest)
     ELSE [ok |-> TRUE, protocol |-> scheme \o ":", hostname |-> "",
           port |-> "", pathname |-> rest, hasQuery |-> FALSE, query |-> ""]

\* URL.prototype.toString(): the href
Href(u) ==
  IF u.protocol \in {s \o ":" : s \in SpecialSchemes}
  THEN u.protocol \o "//" \o u.hostname
       \o (IF u.port = "" THEN "" ELSE ":" \o u.port)
       \o u.pathname
       \o (IF u.hasQuery THEN "?" \o u.query ELSE "")
  ELSE u.protocol \o u.pathname

---------------------------------------------------------------------------
(* src/src/deployment.ts *)

\* the regular expressions /\.vercel\.app$/i ... as the suffix each anchors
VERCEL_URL_PATTERNS == {".vercel.app", ".vercel.dev", ".now.sh", ".vercel.sh"}

\* the pattern without its $ anchor: the suffix may occur anywhere
PatternTest_Unanchored(pattern, text) ==
  \E i \in 1..(Len(text) - Len(pattern) + 1) :
    SubSeq(toLowerCase(text), i, i + Len(pattern) - 1) = pattern

\* pattern.test(text) for a pattern /<suffix>$/i
PatternTest(pattern, text) == EndsWith(toLowerCase(text), pattern)

\* parseUrl without the protocol test: any URL that parses is accepted
parseUrl_AnyScheme(url) == NewURL(url)

\* parseUrl(url): the parsed URL, or ok = FALSE for null
parseUrl(url) ==
  LET parsed == NewURL(url)
  IN IF ~parsed.ok THEN FailedURL
     ELSE IF parsed.protocol # "http:" /\ parsed.protocol # "https:" THEN FailedURL
     ELSE parsed

isVercelUrl(parsedUrl) ==
  \E pattern \in VERCEL_URL_PATTERNS : PatternTest(pattern, parsedUrl.hostname)

isVercelDeployment(url) ==
  LET parsed == parseUrl(url)
  IN parsed.ok /\ isVercelUrl(parsed)

\* what extractDeploymentInfo hands back: null, a DeploymentInfo, or an
\* exception; log is the core.debug/info/warning message of the exit taken
Outcome(kind, log, url, environment, sha, isVercel) ==
  [kind |-> kind, log |-> log, url |-> url, environment |-> environment,
   sha |-> sha, isVercel |-> isVercel]

ReturnNull(log) == Outcome("null", log, "", Undefined, Undefined, FALSE)

Raise == Outcome("throw", "", "", Undefined, Undefined, FALSE)

\* deployment.sha without the optional chaining
DeploymentSha_Unguarded(deployment) == GetProp(deployment, "sha")

\* deployment?.sha
DeploymentSha(deployment) == GetPropOpt(deployment, "sha")

\* the typeof test left out: any truthy deployment.sha is taken
ResolveSha_NoTypeTest(ctx) ==
  LET deployment == GetProp(ctx.payload, "deployment")
      optSha == DeploymentSha(deployment)
  IN IF optSha.t = "throw" THEN Throw
     ELSE IF Truthy(optSha) THEN GetProp(deployment, "sha")
     ELSE ctx.sha

\* lines 138-147: the commit of the deployment when it is a non-empty
\* string, else the commit of the context
ResolveSha(ctx) ==
  LET deployment == GetProp(ctx.payload, "deployment")
      optSha == DeploymentSha(deployment)
  IN IF optSha.t = "throw" THEN Throw
     ELSE IF Truthy(optSha) /\ IsString(GetProp(deployment, "sha"))
       THEN GetProp(deployment, "sha")
     ELSE ctx.sha

\* the preference reversed: target_url when it is a string
CandidateUrl_TargetFirst(deploymentStatus) ==
  IF IsString(GetProp(deploymentStatus, "target_url"))
  THEN GetProp(deploymentStatus, "target_url")
  ELSE GetProp(deploymentStatus, "environment_url")

\* lines 120-124: environment_url when it is a string, else target_url
CandidateUrl(deploymentStatus) ==
  IF IsString(GetProp(deploymentStatus, "environment_url"))
  THEN GetProp(deploymentStatus, "environment_url")
  ELSE GetProp(deploymentStatus, "target_url")

\* the event-type test left out
IsDeploymentStatusEvent_Any(ctx) == TRUE

\* line 88: the event is a deployment-status notification
IsDeploymentStatusEvent(ctx) == ctx.eventName = "deployment_status"

\* the state compared as it is, without lower-casing
NormalizeState_CaseSensitive(rawState) ==
  IF IsString(rawState) THEN rawState ELSE Undefined

\* line 105: typeof rawState === 'string' ? rawState.toLowerCase() : undefined
NormalizeState(rawState) ==
  IF IsString(rawState) THEN Str(toLowerCase(rawState.v)) ELSE Undefined

\* || in place of ??: every falsy environment becomes 'unknown'
ResolveEnvironment_Or(deploymentStatus) ==
  IF Truthy(GetProp(deploymentStatus, "environment"))
  THEN GetProp(deploymentStatus, "environment")
  ELSE Str("unknown")

\* line 112: deploymentStatus.environment ?? 'unknown'
ResolveEnvironment(deploymentStatus) ==
  Coalesce(GetProp(deploymentStatus, "environment"), Str("unknown"))

\* the environment compared as it is, without lower-casing
EnvironmentLower_CaseSensitive(environment) ==
  IF IsString(environment) THEN environment.v ELSE "unknown"

\* line 113: typeof environment === 'string' ? environment.toLowerCase() : 'unknown'
EnvironmentLower(environment) ==
  IF IsString(environment) THEN toLowerCase(environment.v) ELSE "unknown"

extractDeploymentInfo(ctx) ==
  IF ~IsDeploymentStatusEvent(ctx)
    THEN ReturnNull("Event is not deployment_status")
  ELSE
  LET payload == ctx.payload
      deploymentStatus == GetProp(payload, "deployment_status")
  IN
  IF deploymentStatus.t = "throw" THEN Raise
  ELSE IF ~Truthy(deploymentStatus)
    THEN ReturnNull("Missing deployment_status in event payload")
  ELSE
  LET rawState == GetProp(deploymentStatus, "state")
      state == NormalizeState(rawState)
  IN
  IF ~(IsString(state) /\ state.v = "success")
    THEN ReturnNull("Deployment state is not success")
  ELSE
  LET environment == ResolveEnvironment(deploymentStatus)
      environmentLower == EnvironmentLower(environment)
  IN
  IF environmentLower = "production"
    THEN ReturnNull("Skipping production deployment")
  ELSE
  LET candidateUrl == CandidateUrl(deploymentStatus)
  IN
  IF ~Truthy(candidateUrl) \/ ~IsString(candidateUrl)
    THEN ReturnNull("Missing or invalid deployment URL in deployment_status")
  ELSE
  LET parsedUrl == parseUrl(candidateUrl.v)
  IN
  IF ~parsedUrl.ok
    THEN ReturnNull("Invalid deployment URL format")
  ELSE
  LET sha == ResolveSha(ctx)
      isVercel == isVercelUrl(parsedUrl)
  IN
  IF sha.t = "throw" THEN Raise
  ELSE Outcome("info", "Extracted deployment info", Href(parsedUrl),
               environment, sha, isVercel)

---------------------------------------------------------------------------
(* The events the classifier is run on *)

StateValues ==
  {Undefined, Num("1"), Str("success"), Str("Success"), Str("SUCCESS"), Str("pending")}

EnvironmentValues ==
  {Undefined, Null, Num("7"), Str(""), Str("Preview"),
   Str("production"), Str("Production"), Str("PRODUCTION")}

UrlTexts ==
  {"https://a.vercel.app",
   "https://b.vercel.app",
   "HTTPS://My-App.VERCEL.APP:443/path?tab=1",
   "http://preview.example.com:8080",
   "https://a.vercel.app.example.com/",
   "https://vercel.app",
   "https://x.now.sh",
   "https://x.vercel.dev",
   "https://x.vercel.sh",
   "ftp://a.vercel.app/path",
   "not-a-valid-url"}

EnvironmentUrlValues == {Undefined, Num("1"), Str("")} \cup {Str(u) : u \in UrlTexts}

TargetUrlValues ==
  {Undefined, Num("1"), Str(""), Str("https://b.vercel.app"),
   Str("http://preview.example.com:8080"), Str("not-a-valid-url")}

DeploymentStatusObjects ==
  [t : {"object"}, state : StateValues, environment : EnvironmentValues,
   environment_url : EnvironmentUrlValues, target_url : TargetUrlValues]

\* absent, null, a number in place of the object, or the object
DeploymentStatusValues == {Undefined, Null, Num("1")} \cup DeploymentStatusObjects

DeploymentValues ==
  {Undefined, Null, Str("main")} \cup
  [t : {"object"}, sha : {Undefined, Num("5"), Str(""), Str("abc123")}]

Contexts ==
  [eventName : {"deployment_status", "push"},
   sha : {Str("def456")},
   payload : [t : {"object"},
              deployment_status : DeploymentStatusValues,
              deployment : DeploymentValues]]

---------------------------------------------------------------------------
(* src/src/types.ts: the typed errors.  An error is a record of its name,  *)
(* its statusCode (hasStatusCode is FALSE for an error without one), its   *)
(* message and, for RateLimitError, retryAfter; at is the attempt in which *)
(* the error object was created, which tells one error object from the     *)
(* next.                                                                   *)

\* a number-valued slot: undefined, NaN or a finite number
NoNumber == [kind |-> "undefined", value |-> 0]

NaN == [kind |-> "NaN", value |-> 0]

Finite(n) == [kind |-> "number", value |-> n]

\* Number.isFinite(x)
IsFinite(x) == x.kind = "number"

ErrorObject(name, hasStatusCode, statusCode, message, retryAfter) ==
  [name |-> name, hasStatusCode |-> hasStatusCode, statusCode |-> statusCode,
   message |-> message, retryAfter |-> retryAfter, at |-> 0]

NoError == ErrorObject("", FALSE, 0, "", NoNumber)

BadRequestError(message) == ErrorObject("BadRequestError", TRUE, 400, message, NoNumber)

UnauthorizedError(message) == ErrorObject("UnauthorizedError", TRUE, 401, message, NoNumber)

RateLimitError(message, retryAfter) ==
  ErrorObject("RateLimitError", TRUE, 429, message, retryAfter)

TimeoutError(message) == ErrorObject("TimeoutError", TRUE, 504, message, NoNumber)

ServerError(message, statusCode) ==
  ErrorObject("ServerError", TRUE, statusCode, message, NoNumber)

\* new Error(message)
GenericError(message) == ErrorObject("Error", FALSE, 0, message, NoNumber)

\* what fetch rejects with when the signal aborts it
AbortError == ErrorObject("AbortError", FALSE, 0, "This operation was aborted", NoNumber)

\* what fetch rejects with on a network failure
FetchFailed == ErrorObject("TypeError", FALSE, 0, "fetch failed", NoNumber)

\* what response.json() rejects with on a body that is not JSON
JsonSyntaxError == ErrorObject("SyntaxError", FALSE, 0, "Unexpected token", NoNumber)

---------------------------------------------------------------------------
(* src/src/tester-army.ts *)

\* one retry more than the budget
MAX_RETRIES_OneMore == 2 + 1

MAX_RETRIES == 2

INITIAL_RETRY_DELAY == 1000

RECURSIVE Pow2(_)
\* Math.pow(2, n)
Pow2(n) == IF n = 0 THEN 1 ELSE 2 * Pow2(n - 1)

\* the same delay before every retry, without the doubling
RetryDelay_Constant(n) == INITIAL_RETRY_DELAY

\* line 60: INITIAL_RETRY_DELAY * Math.pow(2, attempt)
RetryDelay(n) == INITIAL_RETRY_DELAY * Pow2(n)

\* every error counts as a server error
isServerError_AnyError(error) == TRUE

\* the status test starting at 400: client errors count as server errors
isServerError_From400(error) ==
  \/ error.name = "ServerError"
  \/ (IF error.hasStatusCode THEN error.statusCode ELSE 0) >= 400

\* the name test alone, without the test of the statusCode
isServerError_NameOnly(error) == error.name = "ServerError"

\* an error without a status code counts as status 500
isServerError_MissingStatusIs500(error) ==
  \/ error.name = "ServerError"
  \/ (IF error.hasStatusCode THEN error.statusCode ELSE 500) >= 500

\* lines 159-164
isServerError(error) ==
  \/ error.name = "ServerError"
  \/ (IF error.hasStatusCode THEN error.statusCode ELSE 0) >= 500

\* an HTTP response: its status, whether its body is JSON text ("json",
\* an object with a message for an error status) or not ("text"), and
\* the Retry-After header
HttpResponse(status, body, hasRetryAfter, retryAfterText) ==
  [status |-> status, body |-> body,
   hasRetryAfter |-> hasRetryAfter, retryAfter |-> retryAfterText]

NoResponse == HttpResponse(0, "", FALSE, "")

\* response.ok
ResponseOk(r) == r.status >= 200 /\ r.status <= 299

RECURSIVE DigitsValue(_)
\* the value of a string of decimal digits
DigitsValue(s) ==
  IF s = "" THEN 0
  ELSE DigitsValue(SubSeq(s, 1, Len(s) - 1)) * 10 + DigitValue(CharAt(s, Len(s)))

RECURSIVE LeadingDigits(_)
\* the longest run of digits a string starts with
LeadingDigits(s) ==
  IF s = "" \/ CharAt(s, 1) \notin DigitSet THEN ""
  ELSE CharAt(s, 1) \o LeadingDigits(SubSeq(s, 2, Len(s)))

\* Number.parseInt(text, 10) of a header value (which has no white space
\* around it): an optional sign and the longest run of digits after it;
\* NaN when there is no digit
parseInt(text) ==
  LET signed == StartsWith(text, "-") \/ StartsWith(text, "+")
      digits == LeadingDigits(IF signed THEN SubSeq(text, 2, Len(text)) ELSE text)
  IN IF digits = "" THEN NaN
     ELSE IF StartsWith(text, "-") THEN Finite(0 - DigitsValue(digits))
     ELSE Finite(DigitsValue(digits))

\* the parsed header handed on without the Number.isFinite test
RetryAfterOf_NoFiniteTest(r) ==
  LET retryAfterHeader == IF r.hasRetryAfter THEN r.retryAfter ELSE ""
  IN IF retryAfterHeader # "" THEN parseInt(retryAfterHeader) ELSE NoNumber

\* lines 137-144: the retryAfter of the RateLimitError; headers.get gives
\* null for a header that is not there, and null and "" are falsy
RetryAfterOf(r) ==
  LET retryAfterHeader == IF r.hasRetryAfter THEN r.retryAfter ELSE ""
      retryAfter == IF retryAfterHeader # "" THEN parseInt(retryAfterHeader) ELSE NoNumber
  IN IF IsFinite(retryAfter) THEN retryAfter ELSE NoNumber

\* lines 120-129: errorBody?.message ?? response.statusText
ErrorMessageOf(r) == IF r.body = "json" THEN "body.message" ELSE "statusText"

\* handleErrorResponse without the try around response.json(): a body
\* that is not JSON makes it throw the parser's SyntaxError
handleErrorResponse_NoCatch(r) ==
  LET message == ErrorMessageOf(r)
  IN IF r.body # "json" THEN JsonSyntaxError
     ELSE CASE r.status = 400 -> BadRequestError(message)
            [] r.status = 401 -> UnauthorizedError(message)
            [] r.status = 429 -> RateLimitError(message, RetryAfterOf(r))
            [] r.status = 504 -> TimeoutError(message)
            [] OTHER -> IF r.status >= 500 THEN ServerError(message, r.status)
                        ELSE GenericError("Tester Army API error (" \o ToDecimal(r.status)
                                          \o "): " \o message)

\* lines 119-154: the error handleErrorResponse throws for a response
\* whose body has been read
handleErrorResponse(r) ==
  LET message == ErrorMessageOf(r)
  IN CASE r.status = 400 -> BadRequestError(message)
       [] r.status = 401 -> UnauthorizedError(message)
       [] r.status = 429 -> RateLimitError(message, RetryAfterOf(r))
       [] r.status = 504 -> TimeoutError(message)
       [] OTHER -> IF r.status >= 500 THEN ServerError(message, r.status)
                   ELSE GenericError("Tester Army API error (" \o ToDecimal(r.status)
                                     \o "): " \o message)

\* the catch rethrowing whatever it caught
executeRequestCatch_Rethrow(error) == error

\* lines 105-113: the catch of executeRequest
executeRequestCatch(error) ==
  IF error.name = "AbortError" THEN TimeoutError("Request timed out") ELSE error

\* the retry condition without the test of the attempt counter
ShouldRetry_NoLimit(error, n) == isServerError(error)

\* line 59: the error is retried
ShouldRetry(error, n) == isServerError(error) /\ n < MAX_RETRIES

NoOutcome == Outcome("none", "", "", Undefined, Undefined, FALSE)

\* the promise of runCITest: pending, fulfilled with the parsed body of
\* the response of attempt from, or rejected with error
Settled(kind, error, from) == [kind |-> kind, error |-> error, from |-> from]

Pending == Settled("none", NoError, 0)

\* how the fetch of one attempt settled
Fetched(how, r) == [how |-> how, response |-> r]

\* fetchPRContext has not been called
NoPR == [number |-> 0, title |-> "", body |-> Null, head |-> "", base |-> ""]

NoPRReturn ==
  [kind |-> "none", number |-> 0, title |-> "", description |-> "",
   changedFiles |-> <<>>, branch |-> "", baseBranch |-> ""]

PRIdle ==
  /\ prpc = "idle"
  /\ prs = <<>>
  /\ pr = NoPR
  /\ page = 0
  /\ changedFiles = <<>>
  /\ pullCalls = 0
  /\ fileCalls = <<>>
  /\ warnings = <<>>
  /\ prReturn = NoPRReturn

\* run() has not started
NoRawInputs == [timeout |-> "", failOnError |-> "true", apiKey |-> "key", token |-> ""]

NoInputs == [timeout |-> NoNumber, failOnError |-> FALSE]

NoOutputs == [result |-> "", summary |-> "", reportUrl |-> ""]

RunIdle ==
  /\ rpc = "idle"
  /\ rawInputs = NoRawInputs
  /\ inputs = NoInputs
  /\ testResult = ""
  /\ outputs = NoOutputs
  /\ failed = <<>>
  /\ steps = <<>>

\* postOrUpdateComment has not been called on a PR without comments
CommentsIdle ==
  /\ cmpc = "idle"
  /\ comments = <<>>
  /\ listed = <<>>
  /\ writes = <<>>
  /\ posts = 0
  /\ listingsComplete = TRUE
  /\ postResults = <<>>

ClientIdle ==
  /\ cpc = "idle"
  /\ attempt = 0
  /\ lastError = NoError
  /\ timerArmed = FALSE
  /\ response = NoResponse
  /\ requests = 0
  /\ inflight = 0
  /\ sleeps = <<>>
  /\ history = <<>>
  /\ outcome = Pending

Init ==
  /\ context \in Contexts
  /\ result = NoOutcome
  /\ pc = "ready"
  /\ ClientIdle
  /\ PRIdle
  /\ RunIdle
  /\ CommentsIdle

\* one run of the classifier on the event of this run
Extract ==
  /\ pc = "ready"
  /\ result' = extractDeploymentInfo(context)
  /\ pc' = "done"
  /\ UNCHANGED context
  /\ UNCHANGED <<clientVars, prVars, runVars, commentVars>>

Next == Extract

SpecClassifier == Init /\ [][Next]_vars

---------------------------------------------------------------------------
(* One invocation of runCITest against a server and a network that may     *)
(* answer each request with any response, not answer before the deadline,  *)
(* or fail                                                                 *)

Statuses == {200, 400, 401, 404, 429, 500, 502, 503, 504}

Bodies == {"json", "text"}

RetryAfterTexts == {"", "60", "0", "-5", "12abc", "Wed, 21 Oct 2015 07:28:00 GMT"}

Responses ==
  {HttpResponse(st, b, FALSE, "") : st \in Statuses, b \in Bodies}
  \cup {HttpResponse(429, b, TRUE, t) : b \in Bodies, t \in RetryAfterTexts}

\* an event the classifier accepts: the client runs only after it
TestedContext ==
  [eventName |-> "deployment_status",
   sha |-> Str("def456"),
   payload |-> [t |-> "object",
                deployment_status |-> [t |-> "object", state |-> Str("success"),
                                       environment |-> Str("Preview"),
                                       environment_url |-> Str("https://a.vercel.app"),
                                       target_url |-> Undefined],
                deployment |-> [t |-> "object", sha |-> Str("abc123")]]]

InitClient ==
  /\ context = TestedContext
  /\ result = extractDeploymentInfo(TestedContext)
  /\ pc = "done"
  /\ ClientIdle
  /\ PRIdle
  /\ RunIdle
  /\ CommentsIdle

\* lines 83-96: executeRequest arms the deadline timer and sends the
\* request, then waits for fetch to settle
SendRequest ==
  /\ timerArmed' = TRUE
  /\ requests' = requests + 1
  /\ inflight' = inflight + 1
  /\ cpc' = "fetching"

\* the deadline rejects the attempt but leaves its request running
InflightAfterAbort_NotCancelled(n) == n

\* the request of an aborted fetch is cancelled
InflightAfterAbort(n) == n - 1

\* lines 54-68: the catch of runCITest, entered with the error of the
\* attempt that failed
FailAttempt(error) ==
  LET e == [error EXCEPT !.at = attempt]
  IN /\ lastError' = e
     /\ IF ShouldRetry(e, attempt)
        THEN /\ sleeps' = Append(sleeps, RetryDelay(attempt))
             /\ cpc' = "sleeping"
             /\ UNCHANGED outcome
        ELSE /\ outcome' = Settled("error", e, attempt)
             /\ cpc' = "threw"
             /\ UNCHANGED sleeps

\* line 49-53: runCITest is called and starts attempt 0
Call ==
  /\ cpc = "idle"
  /\ SendRequest
  /\ UNCHANGED <<attempt, lastError, response, sleeps, history, outcome>>
  /\ UNCHANGED <<classifierVars, prVars, runVars, commentVars>>

\* lines 87-98: fetch resolves with a response; the timer is cleared and
\* the body is awaited (line 104, or line 123 for an error status)
ResponseArrives ==
  /\ cpc = "fetching"
  /\ \E r \in Responses :
       /\ response' = r
       /\ history' = Append(history, Fetched("response", r))
  /\ timerArmed' = FALSE
  /\ inflight' = inflight - 1
  /\ cpc' = "reading"
  /\ UNCHANGED <<attempt, lastError, requests, sleeps, outcome>>
  /\ UNCHANGED <<classifierVars, prVars, runVars, commentVars>>

\* the body handed to the caller without leaving the retry loop
BodyRead_NoReturn ==
  /\ cpc = "reading"
  /\ IF ResponseOk(response) /\ response.body = "json"
     THEN /\ outcome' = Settled("result", NoError, attempt)
          /\ cpc' = "sleeping"
          /\ UNCHANGED <<lastError, sleeps>>
     ELSE FailAttempt(executeRequestCatch(
            IF ResponseOk(response) THEN JsonSyntaxError
            ELSE handleErrorResponse(response)))
  /\ UNCHANGED <<attempt, timerArmed, response, requests, inflight, history>>
  /\ UNCHANGED <<classifierVars, prVars, runVars, commentVars>>

\* lines 100-104 and 119-154: the body has been read; a 2xx response
\* whose body parses is returned, every other response throws
BodyRead ==
  /\ cpc = "reading"
  /\ IF ResponseOk(response) /\ response.body = "json"
     THEN /\ outcome' = Settled("result", NoError, attempt)
          /\ cpc' = "returned"
          /\ UNCHANGED <<lastError, sleeps>>
     ELSE FailAttempt(executeRequestCatch(
            IF ResponseOk(response) THEN JsonSyntaxError
            ELSE handleErrorResponse(response)))
  /\ UNCHANGED <<attempt, timerArmed, response, requests, inflight, history>>
  /\ UNCHANGED <<classifierVars, prVars, runVars, commentVars>>

\* line 84 and lines 105-110: the deadline passes before fetch settles;
\* the timer aborts the request and fetch rejects with an AbortError
DeadlineFires ==
  /\ cpc = "fetching"
  /\ timerArmed
  /\ timerArmed' = FALSE
  /\ inflight' = InflightAfterAbort(inflight)
  /\ history' = Append(history, Fetched("deadline", NoResponse))
  /\ FailAttempt(executeRequestCatch(AbortError))
  /\ UNCHANGED <<attempt, response, requests>>
  /\ UNCHANGED <<classifierVars, prVars, runVars, commentVars>>

\* lines 105-112: fetch rejects because the network failed
TransportFails ==
  /\ cpc = "fetching"
  /\ timerArmed' = FALSE
  /\ inflight' = inflight - 1
  /\ history' = Append(history, Fetched("transport", NoResponse))
  /\ FailAttempt(executeRequestCatch(FetchFailed))
  /\ UNCHANGED <<attempt, response, requests>>
  /\ UNCHANGED <<classifierVars, prVars, runVars, commentVars>>

\* lines 61-62, 51 and 71: the backoff sleep is over; attempt++ and the
\* loop test, then the next attempt or the throw after the loop
SleepElapses ==
  /\ cpc = "sleeping"
  /\ attempt' = attempt + 1
  /\ IF attempt + 1 <= MAX_RETRIES
     THEN /\ SendRequest
          /\ UNCHANGED outcome
     ELSE /\ outcome' = Settled("error",
                                IF lastError = NoError
                                THEN GenericError("Unexpected error in retry loop")
                                ELSE lastError,
                                attempt)
          /\ cpc' = "threw"
          /\ UNCHANGED <<timerArmed, requests, inflight>>
  /\ UNCHANGED <<lastError, response, sleeps, history>>
  /\ UNCHANGED <<classifierVars, prVars, runVars, commentVars>>

NextClient ==
  \/ Call
  \/ ResponseArrives
  \/ BodyRead
  \/ DeadlineFires
  \/ TransportFails
  \/ SleepElapses

SpecClient == InitClient /\ [][NextClient]_vars

\* runCITest under the assumption that the invocation starts and that
\* timers fire: the abort timer of line 84 and the sleep of lines 169-171.
\* Nothing is assumed of the network: a response, a network failure or
\* the rest of a body may never come.
SpecClientLive ==
  /\ SpecClient
  /\ WF_vars(Call)
  /\ WF_vars(DeadlineFires)
  /\ WF_vars(SleepElapses)

---------------------------------------------------------------------------
(* src/src/main.ts, lines 129-321: fetchPRContext.  The platform answers   *)
(* each call with data or with an error; a filename is modelled by the     *)
(* file's position in the platform's listing of the PR's files.            *)

\* String.prototype.includes
Includes(text, pattern) ==
  \E i \in 1..(Len(text) - Len(pattern) + 1) :
    SubSeq(text, i, i + Len(pattern) - 1) = pattern

\* what a call of the platform's API can throw: an object with or without
\* a status, or a value that is no object
APIError(t, hasStatus, status, message) ==
  [t |-> t, hasStatus |-> hasStatus, status |-> status, message |-> message]

APIErrors ==
  {APIError("object", TRUE, 403, "API rate limit exceeded for installation"),
   APIError("object", TRUE, 403, "You have exceeded a secondary Rate Limit"),
   APIError("object", TRUE, 403, "Resource not accessible by integration"),
   APIError("object", TRUE, 429, "rate limit"),
   APIError("object", TRUE, 404, "Not Found"),
   APIError("object", TRUE, 500, "Internal Server Error"),
   APIError("object", FALSE, 0, "fetch failed"),
   APIError("string", FALSE, 0, "boom")}

\* lines 300-311
isRateLimitError(error) ==
  IF error.t = "object" /\ error.hasStatus
  THEN IF error.status # 403 THEN FALSE
       ELSE Includes(toLowerCase(error.message), "rate limit")
  ELSE FALSE

\* lines 316-321
isNotFoundError(error) ==
  IF error.t = "object" /\ error.hasStatus THEN error.status = 404 ELSE FALSE

\* lines 276-295: the warnings handleAPIError logs; it returns normally
handleAPIError(error) ==
  IF isRateLimitError(error)
  THEN <<"GitHub API rate limit exceeded while fetching PR context",
         "Consider using a PAT with higher rate limits or reducing API calls">>
  ELSE IF isNotFoundError(error)
  THEN <<"Commit not found or no access to repository">>
  ELSE <<"Failed to fetch PR context: " \o error.message>>

\* the catch letting the error of the platform through to the caller
fetchPRContextCatch_Rethrow(error) == [kind |-> "raised", logged |-> <<>>]

\* lines 213-216: the catch of fetchPRContext
fetchPRContextCatch(error) == [kind |-> "null", logged |-> handleAPIError(error)]

\* line 236
perPage == 100

\* line 261: the greatest page fetchAllChangedFiles asks for
PageLimit == 30

\* the page is taken for the last one only when it is empty
IsLastPage_EmptyOnly(length) == length = 0

\* lines 253-256: files.length < perPage
IsLastPage(length) == length < perPage

\* the filenames of a page of the listing that holds n entries
Page(p, n) == [i \in 1..n |-> perPage * (p - 1) + i]

\* the lengths of the pages the platform answers with
PageSizes == {0, 1, perPage - 1, perPage}

PullRequest(number, title, body, head, base) ==
  [number |-> number, title |-> title, body |-> body, head |-> head, base |-> base]

\* the PRs the platform associates with the commit, most recent first
PRLists ==
  {<<>>,
   <<PullRequest(7, "Add login", Str("Adds the login page"), "feat/login", "main")>>,
   <<PullRequest(7, "Add login", Null, "feat/login", "main")>>,
   <<PullRequest(7, "Add login", Str(""), "feat/login", "main"),
     PullRequest(3, "Older", Str("Old"), "old", "main")>>}

\* lines 205-212: the PR context returned for the PR taken
PRContextOf(p, files) ==
  [kind |-> "context", number |-> p.number, title |-> p.title,
   description |-> Coalesce(p.body, Str("")).v,
   changedFiles |-> files, branch |-> p.head, baseBranch |-> p.base]

\* line 189 and line 215: return null; a rethrown error leaves the function
PRNothing(kind) == [NoPRReturn EXCEPT !.kind = kind]

InitPR ==
  /\ context = TestedContext
  /\ result = extractDeploymentInfo(TestedContext)
  /\ pc = "done"
  /\ ClientIdle
  /\ RunIdle
  /\ CommentsIdle
  /\ prpc = "idle"
  /\ prs \in PRLists
  /\ pr = NoPR
  /\ page = 0
  /\ changedFiles = <<>>
  /\ pullCalls = 0
  /\ fileCalls = <<>>
  /\ warnings = <<>>
  /\ prReturn = NoPRReturn

\* lines 175-185: fetchPRContext is called and asks for the PRs of the commit
FetchPRContext ==
  /\ prpc = "idle"
  /\ prpc' = "listingPulls"
  /\ pullCalls' = pullCalls + 1
  /\ UNCHANGED <<prs, pr, page, changedFiles, fileCalls, warnings, prReturn>>
  /\ UNCHANGED <<classifierVars, clientVars, runVars, commentVars>>

\* lines 213-216: a call to the platform failed
APICallFails ==
  \E error \in APIErrors :
    LET caught == fetchPRContextCatch(error)
    IN /\ warnings' = warnings \o caught.logged
       /\ prReturn' = PRNothing(caught.kind)
       /\ prpc' = "returned"

\* lines 179-185 and 213-216: listing the PRs of the commit fails
PullsFail ==
  /\ prpc = "listingPulls"
  /\ APICallFails
  /\ UNCHANGED <<prs, pr, page, changedFiles, pullCalls, fileCalls>>
  /\ UNCHANGED <<classifierVars, clientVars, runVars, commentVars>>

\* lines 187-202 and 234-247: the PRs of the commit arrive; without a PR
\* null is returned, otherwise the first PR is taken and page 1 of its
\* files is asked for
PullsListed ==
  /\ prpc = "listingPulls"
  /\ IF Len(prs) = 0
     THEN /\ warnings' = Append(warnings, "No PR found associated with commit")
          /\ prReturn' = PRNothing("null")
          /\ prpc' = "returned"
          /\ UNCHANGED <<pr, page, changedFiles, fileCalls>>
     ELSE /\ pr' = prs[1]
          /\ page' = 1
          /\ changedFiles' = <<>>
          /\ fileCalls' = Append(fileCalls, 1)
          /\ prpc' = "listingFiles"
          /\ UNCHANGED <<warnings, prReturn>>
  /\ UNCHANGED <<prs, pullCalls>>
  /\ UNCHANGED <<classifierVars, clientVars, runVars, commentVars>>

\* lines 241-247 and 213-216: listing a page of files fails
FilesFail ==
  /\ prpc = "listingFiles"
  /\ APICallFails
  /\ UNCHANGED <<prs, pr, page, changedFiles, pullCalls, fileCalls>>
  /\ UNCHANGED <<classifierVars, clientVars, runVars, commentVars>>

\* lines 249-267 and 203-212: a page of files arrives; its filenames are
\* appended, and the loop ends after a page that is not full or after
\* page 30, and asks for the next page otherwise
FilesListed ==
  /\ prpc = "listingFiles"
  /\ \E n \in PageSizes :
       LET all == changedFiles \o Page(page, n)
       IN /\ changedFiles' = all
          /\ IF IsLastPage(n)
             THEN /\ prReturn' = PRContextOf(pr, all)
                  /\ prpc' = "returned"
                  /\ UNCHANGED <<page, fileCalls, warnings>>
             ELSE /\ page' = page + 1
                  /\ IF page + 1 > PageLimit
                     THEN /\ warnings' = Append(warnings, "PR has more than 3000 files, truncating")
                          /\ prReturn' = PRContextOf(pr, all)
                          /\ prpc' = "returned"
                          /\ UNCHANGED fileCalls
                     ELSE /\ fileCalls' = Append(fileCalls, page + 1)
                          /\ UNCHANGED <<warnings, prReturn, prpc>>
  /\ UNCHANGED <<prs, pr, pullCalls>>
  /\ UNCHANGED <<classifierVars, clientVars, runVars, commentVars>>

NextPR ==
  \/ FetchPRContext
  \/ PullsFail
  \/ PullsListed
  \/ FilesFail
  \/ FilesListed

SpecPRContext == InitPR /\ [][NextPR]_vars

---------------------------------------------------------------------------
(* src/src/main.ts, lines 323-492: postOrUpdateComment, called one call    *)
(* after the other on the comments of one PR.  A comment is its id and     *)
(* its body; ids are positive.                                             *)

\* line 329
COMMENT_MARKER == "<!-- tester-army-comment -->"

\* lines 414-473: the comment's text; it begins with the marker
formatComment(status) ==
  COMMENT_MARKER \o "\n## Tester Army Results\n\n**Status:** "
    \o (IF status = "passed" THEN "Passed" ELSE "Failed")

Comment(id, body) == [id |-> id, body |-> body]

\* the marker test taking only a body that is the marker and nothing else
HasMarker_WholeBody(comment) ==
  IF IsNullish(comment.body) THEN FALSE ELSE comment.body.v = COMMENT_MARKER

\* line 399: comment.body?.includes(COMMENT_MARKER)
HasMarker(comment) ==
  IF IsNullish(comment.body) THEN FALSE
  ELSE Includes(comment.body.v, COMMENT_MARKER)

RECURSIVE FirstWithMarker(_, _)
\* lines 398-404: the id of the first comment from position i on that has
\* the marker, 0 (for null) when there is none
FirstWithMarker(list, i) ==
  IF i > Len(list) THEN 0
  ELSE IF HasMarker(list[i]) THEN list[i].id
  ELSE FirstWithMarker(list, i + 1)

\* what listComments answered: ok is FALSE when the call failed
Listing(ok, list) == [ok |-> ok, comments |-> list]

\* lines 384-409: the id findExistingComment returns, 0 for null
findExistingComment(listing) ==
  IF listing.ok THEN FirstWithMarker(listing.comments, 1) ELSE 0

\* lines 391-396: listComments answers with the first page of at most 100
\* comments
FirstPage(list) == SubSeq(list, 1, IF Len(list) < 100 THEN Len(list) ELSE 100)

\* the number of calls of postOrUpdateComment in one behaviour
MaxPosts == 3

\* comments of other authors
OtherComments(n) == [i \in 1..n |-> Comment(i, IF i = 1 THEN Null ELSE Str("LGTM"))]

\* the comments the PR holds before the first call: none, comments of
\* others, an earlier result comment among comments of others, and more
\* comments than one page of the listing holds
InitialComments ==
  {<<>>,
   OtherComments(2),
   <<Comment(1, Str("LGTM")), Comment(2, Str(formatComment("failed"))),
     Comment(3, Null)>>,
   OtherComments(100)}

\* the id the platform gives the next comment
NextCommentId(list) == Len(list) + 1

InitComments ==
  /\ context = TestedContext
  /\ result = extractDeploymentInfo(TestedContext)
  /\ pc = "done"
  /\ ClientIdle
  /\ PRIdle
  /\ RunIdle
  /\ cmpc = "idle"
  /\ comments \in InitialComments
  /\ listed = Listing(TRUE, <<>>)
  /\ writes = <<>>
  /\ posts = 0
  /\ listingsComplete = TRUE
  /\ postResults = <<>>

\* lines 342-353 and 391-396: postOrUpdateComment is called, formats the
\* body and asks for the PR's comments
PostOrUpdateComment ==
  /\ cmpc = "idle"
  /\ posts < MaxPosts
  /\ posts' = posts + 1
  /\ cmpc' = "listing"
  /\ UNCHANGED <<comments, listed, writes, listingsComplete, postResults>>
  /\ UNCHANGED <<classifierVars, clientVars, prVars, runVars>>

\* lines 355-371: with the id of an existing comment updateComment is
\* called on it, createComment otherwise
WriteAfter(listing) ==
  LET existingCommentId == findExistingComment(listing)
  IN IF existingCommentId # 0
     THEN /\ writes' = Append(writes, [op |-> "updateComment", id |-> existingCommentId])
          /\ cmpc' = "updating"
     ELSE /\ writes' = Append(writes, [op |-> "createComment", id |-> 0])
          /\ cmpc' = "creating"

\* lines 391-404: the listing arrives
CommentsListed ==
  /\ cmpc = "listing"
  /\ listed' = Listing(TRUE, FirstPage(comments))
  /\ listingsComplete' = (listingsComplete /\ FirstPage(comments) = comments)
  /\ WriteAfter(listed')
  /\ UNCHANGED <<comments, posts, postResults>>
  /\ UNCHANGED <<classifierVars, clientVars, prVars, runVars>>

\* lines 405-408: listing the comments fails; findExistingComment
\* returns null
ListingFails ==
  /\ cmpc = "listing"
  /\ listed' = Listing(FALSE, <<>>)
  /\ listingsComplete' = FALSE
  /\ WriteAfter(listed')
  /\ UNCHANGED <<comments, posts, postResults>>
  /\ UNCHANGED <<classifierVars, clientVars, prVars, runVars>>

\* the PR's comments after the body of comment id was replaced
WithBody(list, id, body) ==
  [i \in 1..Len(list) |-> IF list[i].id = id THEN Comment(id, body) ELSE list[i]]

\* lines 357-363 and 366-372: the write succeeds
WriteDone ==
  /\ cmpc \in {"updating", "creating"}
  /\ \E status \in {"passed", "failed"} :
       comments' =
         IF cmpc = "updating"
         THEN WithBody(comments, writes[Len(writes)].id, Str(formatComment(status)))
         ELSE Append(comments, Comment(NextCommentId(comments), Str(formatComment(status))))
  /\ postResults' = Append(postResults, "returned")
  /\ cmpc' = "idle"
  /\ UNCHANGED <<listed, writes, posts, listingsComplete>>
  /\ UNCHANGED <<classifierVars, clientVars, prVars, runVars>>

\* lines 374-378: the write fails; the error is logged and rethrown
WriteFails ==
  /\ cmpc \in {"updating", "creating"}
  /\ postResults' = Append(postResults, "raised")
  /\ cmpc' = "idle"
  /\ UNCHANGED <<comments, listed, writes, posts, listingsComplete>>
  /\ UNCHANGED <<classifierVars, clientVars, prVars, runVars>>

NextComments ==
  \/ PostOrUpdateComment
  \/ CommentsListed
  \/ ListingFails
  \/ WriteDone
  \/ WriteFails

SpecComments == InitComments /\ [][NextComments]_vars

---------------------------------------------------------------------------
(* src/src/main.ts, lines 1-127: one run of the action.  run() calls the   *)
(* classifier, then fetchPRContext and runCITest, whose steps are the      *)
(* actions above; a called function runs as part of the caller's step up   *)
(* to its first await.                                                     *)

\* a relational comparison of JavaScript numbers: false for NaN
LessThan(x, n) == IsFinite(x) /\ x.value < n

GreaterThan(x, n) == IsFinite(x) /\ x.value > n

\* core.getBooleanInput: the YAML spellings of true and false, a TypeError
\* for every other text
getBooleanInput(text) ==
  IF text \in {"true", "True", "TRUE"} THEN [ok |-> TRUE, value |-> TRUE]
  ELSE IF text \in {"false", "False", "FALSE"} THEN [ok |-> TRUE, value |-> FALSE]
  ELSE [ok |-> FALSE, value |-> FALSE]

Thrown(message) == [ok |-> FALSE, message |-> message, inputs |-> NoInputs]

\* lines 9-28: the inputs of the action, or the error getInputs throws
getInputs(raw) ==
  IF raw.apiKey = "" THEN Thrown("Input required and not supplied: api-key")
  ELSE
  LET timeout == parseInt(IF raw.timeout # "" THEN raw.timeout ELSE "180000")
      failOnError == getBooleanInput(raw.failOnError)
  IN IF ~failOnError.ok
       THEN Thrown("Input does not meet YAML 1.2 \"Core Schema\" specification: fail-on-error")
     ELSE IF LessThan(timeout, 1000) \/ GreaterThan(timeout, 300000)
       THEN Thrown("Timeout must be between 1000 and 300000 milliseconds")
     ELSE [ok |-> TRUE, message |-> "",
           inputs |-> [timeout |-> timeout, failOnError |-> failOnError.value]]

\* the run goes on to the test whatever fetchPRContext returned
HasPRContext_Always(ret) == TRUE

\* line 74: prContext is not null
HasPRContext(ret) == ret.kind = "context"

\* lines 91-92
NormalizedResult(r) == IF r = "PASS" THEN "passed" ELSE "failed"

\* the run is failed for every result that is not PASS
ShouldFail_IgnoreInput(r, failOnError) == r # "PASS"

\* line 115
ShouldFail(r, failOnError) == r # "PASS" /\ failOnError

\* the texts of the inputs and of GITHUB_TOKEN in a run
TimeoutTexts == {"", "999", "1000", "300000", "300001", "abc", "-1"}

RawInputs ==
  [apiKey : {"", "key"}, timeout : TimeoutTexts,
   failOnError : {"true", "false", "yes"}, token : {"", "ghs_token"}]

\* the events of a run: one the classifier accepts and some it rejects
RunContexts ==
  {TestedContext,
   [TestedContext EXCEPT !.eventName = "push"],
   [TestedContext EXCEPT !.payload.deployment_status.state = Str("failure")]}

\* what the service answers in the body of a 2xx response
ServiceResults == {"PASS", "FAILED"}

Screenshots == {<<>>, <<"https://cdn.tester.army/1.png">>}

\* the statuses of the service's responses in a run
RunStatuses == {200, 401, 503}

\* the greatest number of changed files of a PR in a run
MaxRunFiles == 100

InitRun ==
  /\ context \in RunContexts
  /\ result = NoOutcome
  /\ pc = "ready"
  /\ ClientIdle
  /\ CommentsIdle
  /\ prpc = "idle"
  /\ prs \in PRLists
  /\ pr = NoPR
  /\ page = 0
  /\ changedFiles = <<>>
  /\ pullCalls = 0
  /\ fileCalls = <<>>
  /\ warnings = <<>>
  /\ prReturn = NoPRReturn
  /\ rpc = "idle"
  /\ rawInputs \in RawInputs
  /\ inputs = NoInputs
  /\ testResult = ""
  /\ outputs = NoOutputs
  /\ failed = <<>>
  /\ steps = <<>>

\* lines 118-124 (and the early exits of lines 55, 61 and 75): the run is
\* marked failed and ends
SetFailed(message) ==
  /\ failed' = Append(failed, message)
  /\ rpc' = "done"

\* lines 41-72: run() reads the inputs, creates the client, classifies the
\* event, reads GITHUB_TOKEN and calls fetchPRContext, which asks for the
\* PRs of the commit
RunStarts ==
  /\ rpc = "idle"
  /\ LET got == getInputs(rawInputs)
         deploymentInfo == extractDeploymentInfo(context)
     IN IF ~got.ok
        THEN /\ SetFailed(got.message)
             /\ steps' = <<"getInputs">>
             /\ UNCHANGED <<inputs, classifierVars, prVars>>
        ELSE /\ inputs' = got.inputs
             /\ result' = deploymentInfo
             /\ pc' = "done"
             /\ UNCHANGED context
             /\ IF deploymentInfo.kind = "throw"
                THEN /\ SetFailed("Cannot read properties of undefined")
                     /\ steps' = <<"getInputs", "createClient", "extractDeploymentInfo">>
                     /\ UNCHANGED prVars
                ELSE IF deploymentInfo.kind # "info"
                THEN /\ SetFailed("No successful deployment_status event with target_url found")
                     /\ steps' = <<"getInputs", "createClient", "extractDeploymentInfo">>
                     /\ UNCHANGED prVars
                ELSE IF rawInputs.token = ""
                THEN /\ SetFailed("Missing GITHUB_TOKEN for PR context lookup")
                     /\ steps' = <<"getInputs", "createClient", "extractDeploymentInfo">>
                     /\ UNCHANGED prVars
                ELSE /\ steps' = <<"getInputs", "createClient", "extractDeploymentInfo",
                                   "fetchPRContext">>
                     /\ rpc' = "fetchPRContext"
                     /\ prpc' = "listingPulls"
                     /\ pullCalls' = pullCalls + 1
                     /\ UNCHANGED <<prs, pr, page, changedFiles, fileCalls, warnings,
                                    prReturn, failed>>
  /\ UNCHANGED <<rawInputs, testResult, outputs>>
  /\ UNCHANGED <<clientVars, commentVars>>

\* lines 74-89: fetchPRContext has returned; without a PR context the run
\* fails, otherwise the request is built and runCITest is called, which
\* sends its first request
PRContextReturned ==
  /\ rpc = "fetchPRContext"
  /\ prpc = "returned"
  /\ IF HasPRContext(prReturn)
     THEN /\ steps' = Append(steps, "runCITest")
          /\ rpc' = "runCITest"
          /\ SendRequest
          /\ UNCHANGED <<attempt, lastError, response, sleeps, history, outcome, failed>>
     ELSE /\ SetFailed("Unable to resolve PR context for deployment")
          /\ UNCHANGED <<steps, clientVars>>
  /\ UNCHANGED <<rawInputs, inputs, testResult, outputs>>
  /\ UNCHANGED <<classifierVars, prVars, commentVars>>

\* lines 89-106: runCITest returned the result; the outputs are set and
\* the job summary is written
TestReturned ==
  /\ rpc = "runCITest"
  /\ cpc = "returned"
  /\ \E r \in ServiceResults, screenshots \in Screenshots :
       /\ testResult' = r
       /\ outputs' = [result |-> NormalizedResult(r),
                      summary |-> "description",
                      reportUrl |-> IF Len(screenshots) > 0 THEN screenshots[1] ELSE ""]
  /\ steps' = steps \o <<"setOutput", "summary.write">>
  /\ rpc' = "writingSummary"
  /\ UNCHANGED <<rawInputs, inputs, failed>>
  /\ UNCHANGED <<classifierVars, clientVars, prVars, commentVars>>

\* lines 89 and 118-124: runCITest threw; the run fails with the error's
\* message
TestThrew ==
  /\ rpc = "runCITest"
  /\ cpc = "threw"
  /\ SetFailed(outcome.error.message)
  /\ UNCHANGED <<rawInputs, inputs, testResult, outputs, steps>>
  /\ UNCHANGED <<classifierVars, clientVars, prVars, commentVars>>

\* lines 106-117: the summary is written; the result is logged and the
\* run fails when the result is not PASS and fail-on-error is set
SummaryWritten ==
  /\ rpc = "writingSummary"
  /\ failed' = IF ShouldFail(testResult, inputs.failOnError)
               THEN Append(failed, "Tests failed") ELSE failed
  /\ rpc' = "done"
  /\ UNCHANGED <<rawInputs, inputs, testResult, outputs, steps>>
  /\ UNCHANGED <<classifierVars, clientVars, prVars, commentVars>>

\* lines 106 and 118-124: writing the job summary fails
SummaryFails ==
  /\ rpc = "writingSummary"
  /\ SetFailed("Unable to find environment variable for file command GITHUB_STEP_SUMMARY")
  /\ UNCHANGED <<rawInputs, inputs, testResult, outputs, steps>>
  /\ UNCHANGED <<classifierVars, clientVars, prVars, commentVars>>

NextRun ==
  \/ RunStarts
  \/ PullsFail
  \/ PullsListed
  \/ FilesFail
  \/ (FilesListed /\ Len(changedFiles') <= MaxRunFiles)
  \/ PRContextReturned
  \/ (ResponseArrives /\ response'.status \in RunStatuses)
  \/ BodyRead
  \/ DeadlineFires
  \/ TransportFails
  \/ SleepElapses
  \/ TestReturned
  \/ TestThrew
  \/ SummaryWritten
  \/ SummaryFails

SpecRun == InitRun /\ [][NextRun]_vars

---------------------------------------------------------------------------
(* Properties of the classifier *)

\* the fields of the event the properties speak about; undefined when the
\* object that holds them is missing
StatusOf(ctx) == GetPropOpt(ctx.payload, "deployment_status")

StateOf(ctx) == GetPropOpt(StatusOf(ctx), "state")

EnvironmentOf(ctx) == GetPropOpt(StatusOf(ctx), "environment")

EnvironmentUrlOf(ctx) == GetPropOpt(StatusOf(ctx), "environment_url")

TargetUrlOf(ctx) == GetPropOpt(StatusOf(ctx), "target_url")

\* the URL field the classifier is specified to use
CandidateOf(ctx) ==
  IF IsString(EnvironmentUrlOf(ctx)) THEN EnvironmentUrlOf(ctx) ELSE TargetUrlOf(ctx)

\* new URL(text) of the sample texts, computed once
ParsedSamples == [u \in UrlTexts \cup {""} |-> NewURL(u)]

Parsed(text) == IF text \in DOMAIN ParsedSamples THEN ParsedSamples[text] ELSE NewURL(text)

IsHttpUrl(text) == Parsed(text).ok /\ Parsed(text).protocol \in {"http:", "https:"}

IsSuccessState(v) == IsString(v) /\ toLowerCase(v.v) = "success"

IsProduction(v) == IsString(v) /\ toLowerCase(v.v) = "production"

UrlExitLogs ==
  {"Missing or invalid deployment URL in deployment_status",
   "Invalid deployment URL format"}

C2_OnlySuccessState ==
  pc = "done" =>
    /\ ~IsSuccessState(StateOf(context)) => result.kind = "null"
    /\ IsSuccessState(StateOf(context)) => result.log # "Deployment state is not success"

\* an event with state "Success" is accepted
C2_Witness ==
  /\ pc = "done"
  /\ StateOf(context) = Str("Success")
  /\ result.kind = "info"

C4_EnvironmentUrlPreferred ==
  pc = "done" =>
    LET eu == EnvironmentUrlOf(context)
        tu == TargetUrlOf(context)
    IN /\ (IsString(eu) /\ result.kind = "info") => result.url = Href(Parsed(eu.v))
       /\ (IsString(eu) /\ ~IsHttpUrl(eu.v)) => result.kind = "null"
       /\ (~IsString(eu) /\ result.kind = "info") =>
            IsString(tu) /\ result.url = Href(Parsed(tu.v))
       /\ (/\ result.kind = "info" /\ IsString(eu) /\ IsString(tu)
           /\ IsHttpUrl(eu.v) /\ IsHttpUrl(tu.v)
           /\ Href(Parsed(eu.v)) # Href(Parsed(tu.v)))
            => result.url # Href(Parsed(tu.v))

\* both fields hold valid URLs and the output is environment_url's
C4_Witness ==
  /\ pc = "done"
  /\ EnvironmentUrlOf(context) = Str("https://a.vercel.app")
  /\ TargetUrlOf(context) = Str("https://b.vercel.app")
  /\ result.kind = "info"
  /\ result.url = "https://a.vercel.app/"

\* the event with one field of its deployment_status replaced
WithStatusField(ctx, name, value) ==
  [ctx EXCEPT !.payload.deployment_status = [@ EXCEPT ![name] = value]]

HasStatusObject(ctx) == StatusOf(ctx).t = "object"

\* two outcomes a caller cannot tell apart
SameOutcome(a, b) ==
  /\ a.kind = b.kind
  /\ a.kind = "info" =>
       /\ a.url = b.url
       /\ a.isVercel = b.isVercel
       /\ a.environment.t = b.environment.t /\ a.environment.v = b.environment.v
       /\ a.sha.t = b.sha.t /\ a.sha.v = b.sha.v

UrlFields == {"environment_url", "target_url"}

\* C5: an empty-string URL field is treated identically to a missing one:
\* replacing an empty-string environment_url or target_url by an absent
\* field leaves the result unchanged, and an event whose only URL is the
\* empty string is rejected.
C5_EmptyUrlLikeMissing ==
  (pc = "done" /\ HasStatusObject(context)) =>
    /\ \A f \in UrlFields :
         StatusOf(context)[f] = Str("") =>
           SameOutcome(extractDeploymentInfo(WithStatusField(context, f, Undefined)),
                       result)
    /\ (\A f \in UrlFields : StatusOf(context)[f] \in {Str(""), Undefined})
         => result.kind = "null"

\* C6: a context whose eventName is not 'deployment_status', and a context
\* whose payload has no deployment_status object, yield null whatever the
\* other fields hold.
C6_WrongEventOrNoStatus ==
  (pc = "done" /\ (context.eventName # "deployment_status" \/ ~HasStatusObject(context)))
    => result.kind = "null"

\* a push event whose payload would otherwise be accepted
C6_Witness ==
  /\ pc = "done"
  /\ context.eventName = "push"
  /\ extractDeploymentInfo([context EXCEPT !.eventName = "deployment_status"]).kind = "info"
  /\ result.kind = "null"

VercelSuffixes == {".vercel.app", ".vercel.dev", ".now.sh", ".vercel.sh"}

\* the event with its candidate URL field replaced by the text u
WithCandidate(ctx, u) ==
  IF IsString(EnvironmentUrlOf(ctx))
  THEN WithStatusField(ctx, "environment_url", Str(u))
  ELSE WithStatusField(ctx, "target_url", Str(u))

\* two URLs that differ in nothing but the hostname
SameButHostname(p, q) ==
  /\ p.protocol = q.protocol
  /\ p.port = q.port
  /\ p.pathname = q.pathname
  /\ p.hasQuery = q.hasQuery
  /\ p.query = q.query

\* C7: for an accepted event isVercel is true iff the hostname of the
\* resolved URL ends, case-insensitively, with one of .vercel.app,
\* .vercel.dev, .now.sh, .vercel.sh; and two events that differ only in the
\* hostname of a valid http(s) URL are both accepted or both rejected.
C7_VercelBySuffixOnly ==
  (pc = "done" /\ HasStatusObject(context)) =>
    LET c == CandidateOf(context)
    IN /\ result.kind = "info" =>
            (result.isVercel <=>
               \E sfx \in VercelSuffixes :
                 EndsWith(toLowerCase(Parsed(c.v).hostname), sfx))
       /\ (IsString(c) /\ IsHttpUrl(c.v)) =>
            \A u \in UrlTexts :
              (IsHttpUrl(u) /\ SameButHostname(Parsed(c.v), Parsed(u))) =>
                extractDeploymentInfo(WithCandidate(context, u)).kind = result.kind

\* an accepted event whose hostname holds a Vercel suffix that is not at
\* its end
C7_Witness ==
  /\ pc = "done"
  /\ result.kind = "info"
  /\ CandidateOf(context) = Str("https://a.vercel.app.example.com/")
  /\ ~result.isVercel
  /\ extractDeploymentInfo(WithCandidate(context, "https://a.vercel.app")).isVercel

\* C8: for an accepted event the output environment is the string
\* 'unknown' when deployment_status.environment is absent (undefined or
\* null), and otherwise the payload's value unchanged, its casing kept.
C8_EnvironmentDefault ==
  (pc = "done" /\ result.kind = "info") =>
    LET e == EnvironmentOf(context)
    IN IF IsNullish(e)
       THEN result.environment.t = "string" /\ result.environment.v = "unknown"
       ELSE result.environment.t = e.t /\ result.environment.v = e.v

\* an accepted event whose environment is the empty string keeps it
C8_Witness ==
  /\ pc = "done"
  /\ result.kind = "info"
  /\ EnvironmentOf(context) = Str("")
  /\ result.environment = Str("")

DeploymentShaOf(ctx) == GetPropOpt(GetPropOpt(ctx.payload, "deployment"), "sha")

\* C9: for an accepted event the output sha is payload.deployment.sha when
\* that is a non-empty string, and context.sha in every other case
\* (deployment absent, sha missing, sha not a string).
C9_ShaResolution ==
  (pc = "done" /\ result.kind = "info") =>
    LET d == DeploymentShaOf(context)
    IN IF IsString(d) /\ d.v # ""
       THEN result.sha.t = "string" /\ result.sha.v = d.v
       ELSE result.sha.t = context.sha.t /\ result.sha.v = context.sha.v

\* an accepted event whose deployment.sha is a number falls back
C9_Witness ==
  /\ pc = "done"
  /\ result.kind = "info"
  /\ DeploymentShaOf(context) = Num("5")
  /\ result.sha = context.sha

\* C10: extractDeploymentInfo never raises: whatever fields are absent or
\* of the wrong type it returns a DeploymentInfo or null, and it leaves
\* the context as it was.
C10_NeverRaises ==
  /\ [](pc = "done" => result.kind \in {"info", "null"})
  /\ [][context' = context]_vars

\* an accepted event without a deployment object, and a rejected one whose
\* state is a number
C10_Witness ==
  /\ pc = "done"
  /\ context.payload.deployment = Null
  /\ StateOf(context) = Str("success")
  /\ EnvironmentOf(context) = Num("7")
  /\ result.kind = "info"

---------------------------------------------------------------------------
(* Properties of the client *)

Attempts == Len(history)

\* how the fetch of attempt i (1, 2, 3) settled
IsServerErrorResponse(i) ==
  history[i].how = "response" /\ history[i].response.status >= 500

IsOkJsonResponse(i) ==
  /\ history[i].how = "response"
  /\ history[i].response.status \in 200..299
  /\ history[i].response.body = "json"

IsDeadline(i) == history[i].how = "deadline"

StatusAt(i) == history[i].response.status

\* the invocation is over
Completed == cpc \in {"returned", "threw"}

\* the last fetch has settled and its consequences have been drawn
\* (a response's body has been read)
Handled == Attempts > 0 /\ cpc \notin {"reading"}

\* C11: one invocation of runCITest issues at most 3 HTTP requests, the
\* first attempt and at most 2 retries; a 4th request is never sent.
C11_AtMostThreeRequests ==
  /\ requests <= 3
  /\ requests <= 1 + Len(sleeps)
  /\ Len(sleeps) <= 2

\* three requests were sent and the third failed with a retryable error
C11_Witness ==
  /\ cpc = "threw"
  /\ requests = 3
  /\ Attempts = 3
  /\ IsServerErrorResponse(3)

\* C12: when the first k attempts (k = 1 or 2) fail with a retryable
\* server error and attempt k+1 gets a 2xx response, runCITest returns the
\* parsed body of that response after exactly k+1 requests, having slept
\* 1000 ms before the first retry and 2000 ms before the second and not
\* after the successful attempt.
C12_RetryThenSuccess ==
  (/\ Attempts \in {2, 3}
   /\ \A i \in 1..(Attempts - 1) : IsServerErrorResponse(i)
   /\ IsOkJsonResponse(Attempts))
  => /\ requests = Attempts
     /\ sleeps = IF Attempts = 2 THEN <<1000>> ELSE <<1000, 2000>>
     /\ Handled => /\ cpc = "returned"
                   /\ outcome = Settled("result", NoError, Attempts - 1)

\* the responses 500, 503, 200: three requests, sleeps of 1000 and 2000 ms
C12_Witness ==
  /\ Attempts = 3
  /\ IsServerErrorResponse(1) /\ StatusAt(1) = 500
  /\ IsServerErrorResponse(2) /\ StatusAt(2) = 503
  /\ IsOkJsonResponse(3) /\ StatusAt(3) = 200
  /\ cpc = "returned"
  /\ outcome.kind = "result"
  /\ requests = 3
  /\ sleeps = <<1000, 2000>>

\* the typed error of a retryable failure of attempt i
RetryableErrorName(i) ==
  IF IsDeadline(i) \/ StatusAt(i) = 504 THEN "TimeoutError" ELSE "ServerError"

\* C13: when all three attempts fail with a retryable error, runCITest
\* fails after exactly 3 requests and 2 sleeps with the typed error of the
\* third attempt; the generic 'Unexpected error in retry loop' error is
\* never raised.
C13_ExhaustionRaisesLastError ==
  /\ (/\ Attempts = 3
      /\ \A i \in 1..3 : IsServerErrorResponse(i) \/ IsDeadline(i)
      /\ Handled)
     => /\ cpc = "threw"
        /\ requests = 3
        /\ Len(sleeps) = 2
        /\ outcome.kind = "error"
        /\ outcome.error = lastError
        /\ outcome.error.at = 2
        /\ outcome.error.name = RetryableErrorName(3)
        /\ (IsServerErrorResponse(3) /\ StatusAt(3) # 504)
             => outcome.error.statusCode = StatusAt(3)
  /\ outcome.kind = "error" =>
       outcome.error.message # "Unexpected error in retry loop"

\* three 500 responses end in the ServerError of the third
C13_Witness ==
  /\ Attempts = 3
  /\ \A i \in 1..3 : IsServerErrorResponse(i) /\ StatusAt(i) = 500
  /\ cpc = "threw"
  /\ outcome.error.name = "ServerError"
  /\ outcome.error.at = 2
  /\ requests = 3

\* the last fetch got a response with this status
LastStatusIs(st) ==
  /\ Attempts > 0
  /\ history[Attempts].how = "response"
  /\ StatusAt(Attempts) = st

LastResponse == history[Attempts].response

\* the invocation ended with the failure of the last attempt, without a
\* sleep after it and without another request
EndedAtLastAttempt ==
  /\ cpc = "threw"
  /\ outcome.kind = "error"
  /\ outcome.error = lastError
  /\ outcome.error.at = Attempts - 1
  /\ requests = Attempts
  /\ Len(sleeps) = Attempts - 1
  /\ inflight = 0

\* the message an error takes from a response
MessageFrom(r) == IF r.body = "json" THEN "body.message" ELSE "statusText"

\* C14: a 400, 401, 429 or other 4xx response on any attempt ends the
\* invocation with BadRequestError, UnauthorizedError, RateLimitError or an
\* untyped Error carrying status and message; no sleep follows, no further
\* request is sent, and a 4xx first response means exactly 1 request.
C14_ClientErrorsNotRetried ==
  \A st \in {400, 401, 404, 429} :
    (LastStatusIs(st) /\ Handled) =>
      /\ EndedAtLastAttempt
      /\ outcome.error.name =
           (CASE st = 400 -> "BadRequestError"
              [] st = 401 -> "UnauthorizedError"
              [] st = 429 -> "RateLimitError"
              [] OTHER -> "Error")
      /\ st # 404 => /\ outcome.error.hasStatusCode
                     /\ outcome.error.statusCode = st
                     /\ outcome.error.message = MessageFrom(LastResponse)
      /\ st = 404 => /\ ~outcome.error.hasStatusCode
                     /\ outcome.error.message =
                          "Tester Army API error (404): " \o MessageFrom(LastResponse)
      /\ Attempts = 1 => requests = 1 /\ sleeps = <<>>

\* a 400 after one retried 500, and no third request
C14_Witness ==
  /\ Attempts = 2
  /\ StatusAt(1) = 500
  /\ LastStatusIs(400)
  /\ cpc = "threw"
  /\ outcome.error.name = "BadRequestError"
  /\ requests = 2

\* the seconds a Retry-After header text stands for, when it starts with
\* an integer
HeaderSeconds(text) ==
  CASE text = "60" -> Finite(60)
    [] text = "0" -> Finite(0)
    [] text = "-5" -> Finite(0 - 5)
    [] text = "12abc" -> Finite(12)
    [] OTHER -> NoNumber

\* C15: a 429 response makes runCITest fail at once with a RateLimitError
\* whose retryAfter is the Retry-After header's number of seconds when the
\* header is present and parses to a finite number, and undefined when it
\* is absent or does not parse; the client neither waits nor retries.
C15_RateLimitSurfaced ==
  (LastStatusIs(429) /\ Handled) =>
    /\ EndedAtLastAttempt
    /\ outcome.error.name = "RateLimitError"
    /\ outcome.error.statusCode = 429
    /\ outcome.error.retryAfter =
         (IF LastResponse.hasRetryAfter
          THEN HeaderSeconds(LastResponse.retryAfter)
          ELSE NoNumber)

\* a 429 with an HTTP-date in Retry-After: retryAfter is undefined
C15_Witness ==
  /\ LastStatusIs(429)
  /\ LastResponse.hasRetryAfter
  /\ LastResponse.retryAfter = "Wed, 21 Oct 2015 07:28:00 GMT"
  /\ cpc = "threw"
  /\ outcome.error.name = "RateLimitError"
  /\ outcome.error.retryAfter = NoNumber
  /\ requests = 1

\* C16: a 504 response becomes a TimeoutError and is retried like any
\* other 5xx response: after the first and the second attempt the client
\* sleeps the backoff delay and then sends another request, and only the
\* third attempt's TimeoutError is raised.
C16_GatewayTimeoutRetried ==
  (LastStatusIs(504) /\ Handled) =>
    /\ lastError.name = "TimeoutError"
    /\ lastError.statusCode = 504
    /\ lastError.at = Attempts - 1
    /\ Attempts < 3 =>
         /\ outcome = Pending
         /\ Len(sleeps) = Attempts
         /\ sleeps[Attempts] = (IF Attempts = 1 THEN 1000 ELSE 2000)
         /\ \/ cpc = "sleeping" /\ requests = Attempts
            \/ cpc = "fetching" /\ requests = Attempts + 1
    /\ Attempts = 3 =>
         /\ EndedAtLastAttempt
         /\ outcome.error.name = "TimeoutError"

\* three 504 responses: two sleeps, then the TimeoutError
C16_Witness ==
  /\ Attempts = 3
  /\ \A i \in 1..3 : history[i].how = "response" /\ StatusAt(i) = 504
  /\ cpc = "threw"
  /\ outcome.error.name = "TimeoutError"
  /\ sleeps = <<1000, 2000>>
  /\ requests = 3

\* C17: when the deadline passes in an attempt before the response
\* arrives, that attempt's request is aborted and the attempt fails with a
\* TimeoutError, never with the raw abort error; when no response arrives
\* within the deadline in any attempt, runCITest fails with TimeoutError.
C17_DeadlineGivesTimeout ==
  /\ lastError.name # "AbortError"
  /\ outcome.error.name # "AbortError"
  /\ (Attempts > 0 /\ IsDeadline(Attempts)) =>
       /\ lastError.name = "TimeoutError"
       /\ lastError.at = Attempts - 1
       /\ ~(cpc = "fetching" /\ requests = Attempts)
       /\ requests = Attempts => inflight = 0 /\ ~timerArmed
  /\ (Attempts = 3 /\ \A i \in 1..3 : IsDeadline(i)) =>
       /\ cpc = "threw"
       /\ outcome.kind = "error"
       /\ outcome.error.name = "TimeoutError"
       /\ outcome.error.at = 2

\* the deadline passed in all three attempts
C17_Witness ==
  /\ Attempts = 3
  /\ \A i \in 1..3 : IsDeadline(i)
  /\ cpc = "threw"
  /\ outcome.error.name = "TimeoutError"
  /\ requests = 3
  /\ inflight = 0

\* the name of the error an attempt fails with, from how its fetch settled
FailureName(f) ==
  CASE f.how = "deadline" -> "TimeoutError"
    [] f.how = "transport" -> "TypeError"
    [] f.response.status \in 200..299 -> "SyntaxError"
    [] f.response.status = 400 -> "BadRequestError"
    [] f.response.status = 401 -> "UnauthorizedError"
    [] f.response.status = 429 -> "RateLimitError"
    [] f.response.status = 504 -> "TimeoutError"
    [] f.response.status >= 500 -> "ServerError"
    [] OTHER -> "Error"

\* C18: only ServerError and Timeout are intercepted for retry: a failed
\* attempt is followed by another attempt iff its error is a ServerError or
\* a TimeoutError (a local deadline expiry included) and fewer than 2
\* retries have been made; every other error goes to the caller unchanged
\* right after the attempt that produced it.
C18_OnlyServerErrorAndTimeoutRetried ==
  [][/\ lastError' # lastError =>
          /\ lastError'.name = FailureName(history'[Len(history')])
          /\ lastError'.at = attempt
          /\ IF lastError'.name \in {"ServerError", "TimeoutError"} /\ Len(sleeps) < 2
             THEN /\ cpc' = "sleeping"
                  /\ Len(sleeps') = Len(sleeps) + 1
                  /\ outcome' = Pending
             ELSE /\ cpc' = "threw"
                  /\ outcome' = Settled("error", lastError', attempt)
                  /\ sleeps' = sleeps
                  /\ requests' = requests
     /\ cpc = "sleeping" =>
          /\ cpc' = "fetching"
          /\ attempt' = attempt + 1
          /\ requests' = requests + 1
    ]_vars

\* a network failure in the second attempt reaches the caller as it is
C18_Witness ==
  /\ Attempts = 2
  /\ IsDeadline(1)
  /\ history[2].how = "transport"
  /\ cpc = "threw"
  /\ outcome.error.name = "TypeError"
  /\ requests = 2
  /\ Len(sleeps) = 1

\* C19: a completed invocation has exactly one outcome, a result or an
\* error and never both; no failure is swallowed; and once the invocation
\* has returned or thrown, no request is sent and no sleep begun.
C19_ExactlyOneOutcome ==
  /\ [](/\ cpc = "returned" <=> outcome.kind = "result"
        /\ cpc = "threw" <=> outcome.kind = "error"
        /\ outcome.kind = "result" => outcome.error = NoError /\ IsOkJsonResponse(Attempts)
        /\ outcome.kind = "error" => outcome.error # NoError /\ outcome.error = lastError
        /\ (Handled /\ requests = Attempts /\ ~IsOkJsonResponse(Attempts)
              /\ cpc # "sleeping") => outcome.kind = "error")
  /\ [][outcome.kind # "none" =>
          /\ outcome' = outcome
          /\ requests' = requests
          /\ sleeps' = sleeps
          /\ inflight' = inflight]_vars

\* a result after one retry; its error slot is empty although an earlier
\* attempt failed
C19_Witness ==
  /\ cpc = "returned"
  /\ outcome.kind = "result"
  /\ outcome.error = NoError
  /\ lastError # NoError
  /\ requests = 2

\* C20: at most one HTTP request is outstanding at any time: a retry is
\* sent only after the previous attempt has failed and the backoff sleep is
\* over, and no request is in flight during a sleep.
C20_OneOutstandingRequest ==
  /\ [](/\ inflight \in {0, 1}
        /\ inflight = 1 <=> cpc = "fetching"
        /\ cpc = "sleeping" => inflight = 0 /\ ~timerArmed)
  /\ [][requests' # requests =>
          /\ requests' = requests + 1
          /\ inflight = 0
          /\ inflight' = 1
          /\ cpc \in {"idle", "sleeping"}
          /\ cpc = "sleeping" => /\ requests = attempt + 1
                                 /\ lastError.at = attempt
                                 /\ Len(sleeps) = attempt + 1]_vars

\* the backoff sleep after an attempt that ran into its deadline
C20_Witness ==
  /\ cpc = "sleeping"
  /\ IsDeadline(Attempts)
  /\ inflight = 0
  /\ requests = 1

\* the error of the last attempt with the text taken from the status line
\* replaced by the text a JSON error body would have given
WithJsonMessage(error) ==
  [error EXCEPT !.message =
     IF error.name = "Error"
     THEN "Tester Army API error (" \o ToDecimal(LastResponse.status) \o "): body.message"
     ELSE "body.message"]

\* the last attempt got a non-2xx response whose body is not JSON
LastIsNonJsonError ==
  /\ Handled
  /\ requests = Attempts
  /\ history[Attempts].how = "response"
  /\ LastResponse.status \notin 200..299
  /\ LastResponse.body = "text"

\* C21: the typed error of a non-2xx response and the retry decision depend
\* only on the status code: with a body that is not JSON the error has the
\* name, status code and retryAfter the status alone determines, its
\* message is the status text, and the attempt is retried exactly when the
\* status is 5xx and fewer than 2 retries were made; three non-JSON 502
\* responses end in ServerError.
C21_NonJsonBodyClassifiedByStatus ==
  /\ LastIsNonJsonError =>
       /\ lastError.name = FailureName(history[Attempts])
       /\ lastError.message =
            (IF lastError.name = "Error"
             THEN "Tester Army API error (" \o ToDecimal(LastResponse.status) \o "): statusText"
             ELSE "statusText")
       /\ WithJsonMessage(lastError) =
            [handleErrorResponse([LastResponse EXCEPT !.body = "json"])
               EXCEPT !.at = Attempts - 1]
       /\ IF LastResponse.status >= 500 /\ Attempts < 3
          THEN cpc = "sleeping" /\ outcome = Pending /\ Len(sleeps) = Attempts
          ELSE EndedAtLastAttempt
  /\ (Attempts = 3 /\ LastIsNonJsonError
        /\ \A i \in 1..3 : /\ history[i].how = "response"
                           /\ history[i].response = HttpResponse(502, "text", FALSE, "")) =>
       /\ cpc = "threw"
       /\ outcome.error.name = "ServerError"
       /\ outcome.error.statusCode = 502
       /\ outcome.error.message = "statusText"
       /\ sleeps = <<1000, 2000>>

\* three 502 responses with a body that is not JSON
C21_Witness ==
  /\ Attempts = 3
  /\ \A i \in 1..3 : /\ history[i].how = "response"
                     /\ history[i].response = HttpResponse(502, "text", FALSE, "")
  /\ cpc = "threw"
  /\ outcome.error.name = "ServerError"
  /\ requests = 3

\* C22: a transport-level failure of an attempt (fetch rejects with an
\* error that is no abort and has no status code) is not retried: runCITest
\* throws that same error after this attempt, without a sleep and without
\* another request.
C22_TransportFailureNotRetried ==
  (Attempts > 0 /\ history[Attempts].how = "transport") =>
     /\ EndedAtLastAttempt
     /\ outcome.error = [FetchFailed EXCEPT !.at = Attempts - 1]
     /\ ~outcome.error.hasStatusCode
     /\ cpc # "sleeping"

\* the network fails in the first attempt
C22_Witness ==
  /\ Attempts = 1
  /\ history[1].how = "transport"
  /\ cpc = "threw"
  /\ outcome.error.name = "TypeError"
  /\ requests = 1
  /\ sleeps = <<>>

\* C30: every invocation of runCITest eventually completes with a result
\* or an error when timers eventually fire: the deadline timer is armed
\* exactly while the attempt's fetch is pending, and neither the wait for
\* the response nor the reading of the body can last forever.
C30_EventuallyCompletes ==
  /\ [](timerArmed <=> cpc = "fetching")
  /\ [](cpc = "fetching" => <>(cpc # "fetching"))
  /\ [](cpc = "reading" => <>(cpc # "reading"))
  /\ <>Completed

---------------------------------------------------------------------------
(* Properties of fetchPRContext *)

\* the first n filenames of the listing
FirstFiles(n) == [i \in 1..n |-> i]

\* the pages asked for so far are 1, 2, 3, ... in order
PagesInOrder == \A i \in 1..Len(fileCalls) : fileCalls[i] = i

\* C23: fetchAllChangedFiles asks for the pages 1, 2, 3, ... of size 100
\* in order, stops after the first page with fewer than 100 entries or
\* after page 30, and returns the filenames of the fetched pages in page
\* order: at most 30 requests and at most 3000 filenames, and 2 requests
\* and 100 names for a PR with exactly 100 files.
C23_PagesInOrderUpToThirty ==
  /\ PagesInOrder
  /\ Len(fileCalls) <= 30
  /\ Len(changedFiles) <= 3000
  /\ changedFiles = FirstFiles(Len(changedFiles))
  /\ prpc = "listingFiles" =>
       /\ page = Len(fileCalls)
       /\ Len(changedFiles) = 100 * (page - 1)
  /\ prReturn.kind = "context" =>
       /\ prReturn.changedFiles = changedFiles
       /\ \/ Len(changedFiles) < 100 * Len(fileCalls)
          \/ Len(fileCalls) = 30 /\ Len(changedFiles) = 3000
       /\ Len(changedFiles) >= 100 * (Len(fileCalls) - 1)
       /\ Len(changedFiles) = 100 => Len(fileCalls) = 2

\* a PR with exactly 100 files: a full page and an empty one
C23_Witness ==
  /\ prReturn.kind = "context"
  /\ fileCalls = <<1, 2>>
  /\ prReturn.changedFiles = FirstFiles(100)

\* a PR with 3000 files or more: thirty full pages
C23_WitnessTruncated ==
  /\ prReturn.kind = "context"
  /\ Len(fileCalls) = 30
  /\ Len(prReturn.changedFiles) = 3000

\* C28: fetchPRContext never raises: when listing the PRs of the commit or
\* a page of files fails with any error it returns null and no partial
\* context; when the commit has no PR it returns null without listing
\* files; when several PRs are associated it uses the first one.
C28_NeverRaises ==
  /\ prReturn.kind \in {"none", "null", "context"}
  /\ prpc = "returned" <=> prReturn.kind # "none"
  /\ prReturn.kind = "null" => prReturn = PRNothing("null")
  /\ (prpc = "returned" /\ Len(prs) = 0) =>
       /\ prReturn.kind = "null"
       /\ fileCalls = <<>>
  /\ prReturn.kind = "context" =>
       /\ Len(prs) > 0
       /\ prReturn.number = prs[1].number
       /\ prReturn.title = prs[1].title
       /\ warnings \in {<<>>, <<"PR has more than 3000 files, truncating">>}
  /\ (prpc = "returned" /\ warnings # <<>>
        /\ warnings # <<"PR has more than 3000 files, truncating">>) =>
       prReturn.kind = "null"

\* the third page of files fails after two full pages: null, although 200
\* filenames had been collected
C28_Witness ==
  /\ prpc = "returned"
  /\ fileCalls = <<1, 2, 3>>
  /\ Len(changedFiles) = 200
  /\ warnings = <<"Commit not found or no access to repository">>
  /\ prReturn = PRNothing("null")

\* two PRs are associated with the commit
C28_WitnessFirstPR ==
  /\ Len(prs) = 2
  /\ prReturn.kind = "context"
  /\ prReturn.number = 7

---------------------------------------------------------------------------
(* Properties of postOrUpdateComment *)

\* the positions of the comments of list whose body contains the marker
MarkedPositions(list) ==
  {i \in 1..Len(list) :
     /\ list[i].body.t = "string"
     /\ \E k \in 1..Len(list[i].body.v) :
          k + 27 <= Len(list[i].body.v)
            /\ SubSeq(list[i].body.v, k, k + 27) = "<!-- tester-army-comment -->"}

\* the calls of postOrUpdateComment that have made their write call
CallsPastListing == IF cmpc = "listing" THEN posts - 1 ELSE posts

\* C29: each call of postOrUpdateComment makes exactly one write call:
\* updateComment on the first listed comment whose body contains the
\* marker, and never createComment then; createComment when no listed
\* comment contains the marker or the listing failed.  When every listing
\* succeeded and returned all comments of the PR, the PR holds at most one
\* comment with the marker.
C29_OneWritePerCall ==
  /\ Len(writes) = CallsPastListing
  /\ Len(postResults) = (IF cmpc = "idle" THEN posts ELSE posts - 1)
  /\ Len(writes) > 0 =>
       LET w == writes[Len(writes)]
           marked == MarkedPositions(listed.comments)
       IN IF listed.ok /\ marked # {}
          THEN /\ w.op = "updateComment"
               /\ \E i \in marked : /\ w.id = listed.comments[i].id
                                    /\ \A j \in marked : i <= j
          ELSE w.op = "createComment"
  /\ listingsComplete => Cardinality(MarkedPositions(comments)) <= 1

\* the second call updated the comment the first call created
C29_Witness ==
  /\ posts = 2
  /\ cmpc = "idle"
  /\ Len(writes) = 2
  /\ writes[1].op = "createComment"
  /\ writes[2].op = "updateComment"
  /\ listingsComplete
  /\ Cardinality(MarkedPositions(comments)) = 1
  /\ writes[2].id = comments[Len(comments)].id

\* a listing failed, so there are two result comments, and the next call
\* updates the first of them
C29_WitnessFirstOfTwo ==
  /\ Cardinality(MarkedPositions(comments)) = 2
  /\ listed.ok
  /\ cmpc = "updating"
  /\ \E i \in MarkedPositions(comments) :
       /\ writes[Len(writes)].id = comments[i].id
       /\ \E j \in MarkedPositions(comments) : i < j

---------------------------------------------------------------------------
(* Properties of run() *)

\* the calls run() has made
StepsMade == {steps[i] : i \in 1..Len(steps)}

\* the position of a call among the calls of the run, 0 when it was not made
StepAt(name) ==
  IF name \in StepsMade THEN CHOOSE i \in 1..Len(steps) : steps[i] = name ELSE 0

\* the classifier accepts the event of the run
EventAccepted == extractDeploymentInfo(context).kind = "info"

\* C24: the test request is sent only after extractDeploymentInfo has
\* returned a DeploymentInfo and then fetchPRContext a PR context; when the
\* classifier rejects the event, GITHUB_TOKEN is missing or no PR context
\* is resolved, the run ends without a test request.
C24_TestOnlyAfterClassifierAndPRContext ==
  /\ (requests > 0 \/ "runCITest" \in StepsMade) =>
       /\ result.kind = "info"
       /\ pc = "done"
       /\ prpc = "returned"
       /\ prReturn.kind = "context"
       /\ rawInputs.token # ""
       /\ 0 < StepAt("extractDeploymentInfo")
       /\ StepAt("extractDeploymentInfo") < StepAt("fetchPRContext")
       /\ StepAt("fetchPRContext") < StepAt("runCITest")
  /\ "fetchPRContext" \in StepsMade => result.kind = "info"
  /\ (~EventAccepted \/ rawInputs.token = "" \/ prReturn.kind = "null") =>
       /\ requests = 0
       /\ "runCITest" \notin StepsMade
       /\ rpc \in {"idle", "fetchPRContext", "done"}
       /\ rpc = "done" => Len(failed) = 1
  /\ (rpc = "done" /\ prReturn.kind = "null") =>
       failed = <<"Unable to resolve PR context for deployment">>

\* the first test request is out, after a PR context with 100 files
C24_Witness ==
  /\ rpc = "runCITest"
  /\ requests = 1
  /\ cpc = "fetching"
  /\ result.kind = "info"
  /\ prReturn.kind = "context"
  /\ Len(prReturn.changedFiles) = 100
  /\ steps = <<"getInputs", "createClient", "extractDeploymentInfo",
               "fetchPRContext", "runCITest">>

\* C25: after the remote test has returned a result, the run posts the
\* result as a PR comment and completes a GitHub Check with the pass/fail
\* conclusion before it finishes.
C25_ResultPostedAndCheckCompleted ==
  (rpc = "done" /\ testResult # "") =>
     /\ "postOrUpdateComment" \in StepsMade
     /\ Len(writes) > 0
     /\ "updateCheck" \in StepsMade

\* the failure messages of the run
FailedWith == {failed[i] : i \in 1..Len(failed)}

C26_WitnessFailed ==
  /\ rpc = "done"
  /\ testResult = "FAILED"
  /\ rawInputs.failOnError = "true"
  /\ outputs.result = "failed"
  /\ failed = <<"Tests failed">>

\* the other inputs are such that getInputs gets to the test of the timeout
OtherInputsValid ==
  /\ rawInputs.apiKey # ""
  /\ rawInputs.failOnError \in {"true", "false"}

\* the timeout input is empty or parses to a number from 1000 to 300000
TimeoutInputValid == rawInputs.timeout \in {"", "1000", "300000"}

\* C27: for every value of the 'timeout' input, the client is created and
\* a request is sent only when the parsed timeout is a number from 1000 to
\* 300000 (180000 for an empty input); for every other value, one that
\* does not parse to a number included, the run fails with 'Timeout must
\* be between 1000 and 300000 milliseconds' before any request.
C27_TimeoutValidated ==
  /\ ("createClient" \in StepsMade \/ requests > 0) =>
       /\ inputs.timeout.kind = "number"
       /\ inputs.timeout.value >= 1000
       /\ inputs.timeout.value <= 300000
       /\ rawInputs.timeout = "" => inputs.timeout.value = 180000
  /\ (rpc # "idle" /\ OtherInputsValid /\ ~TimeoutInputValid) =>
       /\ rpc = "done"
       /\ failed = <<"Timeout must be between 1000 and 300000 milliseconds">>
       /\ "createClient" \notin StepsMade
       /\ requests = 0

====
